---- MODULE Spec2Model ----
(***************************************************************************)
(* NeopixelCommander (src/NeopixelCommander.h): WebSocket/HTTP handlers    *)
(* feed a ring buffer of Commands that loop() drains onto the LED strip.   *)
(*                                                                         *)
(* Program state: commandQueue, queueStart, queueEnd (the ring buffer),     *)
(* enqCall and loopCall (where an enqueueCommand call of each client and a  *)
(* loop() call stand when they are run statement by statement, and their    *)
(* locals),                                                                 *)
(* pixels, brightness, output (the Adafruit_NeoPixel strip: its RAM buffer, *)
(* its brightness and what the LEDs physically show), connected and         *)
(* nextClientId (the AsyncWebSocket client registry).                       *)
(* History: enqueued and applied (the commands enqueueCommand accepted and  *)
(* the commands loop() executed, in order), call and trace (the handler     *)
(* that ran last and what it did, in program order).                        *)
(*                                                                         *)
(* Every handler is one atomic action.  Spec is the WebSocket pipeline with   *)
(* long histories: clients connect, send frames and leave, and loop() runs;   *)
(* no HTTP request arrives.  SpecWide adds the HTTP handlers and every        *)
(* command type, with short histories.  LiveSpec is Spec with loop() called   *)
(* again and again.  SpecSteps runs enqueueCommand and loop() statement by   *)
(* statement, interleaved.                                                  *)
(***************************************************************************)
EXTENDS Integers, Sequences, FiniteSets, TLC

(***************************************************************************)
(* Bounds of the model.  QUEUE_SIZE is 512 and COMMANDS_PER_LOOP is 10 in  *)
(* the source (NeopixelCommander.h:242 and :9); the model keeps the code's *)
(* arithmetic on them and scales the values down.  NumPixels is the        *)
(* constructor's numPixels.  MaxEnq and MaxWideEnq cap the length of the   *)
(* history (the number of commands accepted in one behaviour) under Spec   *)
(* and under SpecWide, MaxCalls the enqueueCommand calls of one client      *)
(* under SpecSteps.                                                        *)
(***************************************************************************)
QUEUE_SIZE == 4
COMMANDS_PER_LOOP == 2
NumPixels == 1
MaxEnq == 5
MaxWideEnq == 1
MaxCalls == 2

\* The ids AsyncWebSocket gives its clients, in order of connection.
ClientIds == {1, 2}

\* Widths of the integer types of Command (lines 24-30).
Uint8 == 2^8
Uint16 == 2^16

\* A field of `Command command;` (line 330) that the handler never assigns, and
\* a slot of commandQueue never written: indeterminate, and never read by loop().
Indet == -1

Min(a, b) == IF a < b THEN a ELSE b

-----------------------------------------------------------------------------
(* Inbound frames.  A text frame is the bare text "ping", text that is not   *)
(* JSON, or a JSON object (a record whose domain is the keys it carries).    *)

(* Spec draws the frames from Frames: every kind of reply, and two commands  *)
(* any client may send, so that long histories stay checkable.  SpecWide     *)
(* draws them from WideFrames: every command type, with short histories.     *)

Docs ==
  { [cmd |-> "ping"],
    [cmd |-> "getPixelCount"],
    [cmd |-> "ping", id |-> 1],
    [cmd |-> "getPixelCount", id |-> 2],
    [cmd |-> "setColor"],
    [cmd |-> "bogus", id |-> 1],
    [cmd |-> "setPixelColor", id |-> 2, index |-> NumPixels, r |-> 7],
    [cmd |-> "setPixelColor", id |-> 1, index |-> 0, r |-> 7],
    [cmd |-> "show", id |-> 2] }

WideDocs ==
  Docs \cup
  { [cmd |-> "setPixelColor", id |-> 2, index |-> Uint16, r |-> 7],
    [cmd |-> "setColor", id |-> 1],
    [cmd |-> "clear", id |-> 2],
    [cmd |-> "setBrightness", id |-> 2, brightness |-> 50],
    [cmd |-> "bogus"],
    [cmd |-> "setPixelColor", index |-> NumPixels, r |-> 7],
    [cmd |-> "clear", id |-> 0],
    [cmd |-> "show", id |-> -1] }

NoDoc == [cmd |-> ""]

TextFrames ==
  { [payload |-> "ping", doc |-> NoDoc], [payload |-> "badjson", doc |-> NoDoc] }

Frames == TextFrames \cup { [payload |-> "json", doc |-> d] : d \in Docs }

WideFrames == TextFrames \cup { [payload |-> "json", doc |-> d] : d \in WideDocs }

\* The POST parameters of /api/setColor and /api/setBrightness requests.
ColorParams == { [r |-> 7, g |-> 0, b |-> 0], [r |-> 7] }
BrightnessParams == { [brightness |-> 50], [level |-> 50] }

\* ArduinoJson's `doc[key] | dflt` with an int default: the member when it is
\* an integer that fits an int, else the default (lines 321, 338-340, 349-352,
\* 370).  Every integer of a document of the model fits an int.
JsonOr(doc, key, dflt) ==
  IF key \in DOMAIN doc THEN doc[key] ELSE dflt

\* The conversions of that int to the field's type: uint8_t and uint16_t keep
\* the value modulo 2^8 and 2^16.
ToUint8(x) == x % Uint8
ToUint16(x) == x % Uint16

\* The conversion of an int to uint32_t (line 321): x modulo 2^32, that is x
\* itself when x >= 0 and x + 2^32 when x < 0.  A uint32_t is kept as its two
\* 16-bit halves, value = hi * 2^16 + lo.
ToUint32(x) ==
  LET y == IF x >= 0 THEN x ELSE (x + 2147483647) + 1
  IN [hi |-> (IF x >= 0 THEN 0 ELSE Uint16 \div 2) + (y \div Uint16),
      lo |-> y % Uint16]

\* `doc["cmd"] | ""` (line 301).
JsonCmd(doc) == IF "cmd" \in DOMAIN doc THEN doc.cmd ELSE ""

-----------------------------------------------------------------------------
VARIABLES commandQueue, queueStart, queueEnd,
          pixels, brightness, output,
          connected, nextClientId,
          enqueued, applied, call, trace,
          enqCall, loopCall

vars == <<commandQueue, queueStart, queueEnd, pixels, brightness, output,
          connected, nextClientId, enqueued, applied, call, trace,
          enqCall, loopCall>>

queueVars == <<commandQueue, queueStart, queueEnd>>
stripVars == <<pixels, brightness, output>>
wsVars == <<connected, nextClientId>>
stepVars == <<enqCall, loopCall>>

EmptySlot ==
  [type |-> "NONE", index |-> Indet, r |-> Indet, g |-> Indet, b |-> Indet,
   brightness |-> Indet, clientId |-> Indet,
   commandId |-> [hi |-> Indet, lo |-> Indet]]

Black == <<0, 0, 0>>

\* The index advanced without the modulo.
NextIndexNoWrap(i) == i + 1

\* (queueStart + 1) % QUEUE_SIZE, (queueEnd + 1) % QUEUE_SIZE (lines 176, 261).
NextIndex(i) == (i + 1) % QUEUE_SIZE

\* The commands buffered in the ring, oldest first, as loop() would read them.
RECURSIVE Buffered(_, _, _)
Buffered(buf, s, e) ==
  IF s = e THEN <<>> ELSE <<buf[s]>> \o Buffered(buf, NextIndex(s), e)

-----------------------------------------------------------------------------
\* enqueueCommand without its full test: it writes and advances whatever
\* queueStart is.
enqueueCommandUnchecked(buf, qs, qe, cmd) ==
  [ok |-> TRUE, buf |-> [buf EXCEPT ![qe] = cmd], qe |-> NextIndex(qe)]

\* enqueueCommand evicting the oldest command when the ring is full: it
\* overwrites the slot at queueStart and reports success.
enqueueCommandEvicting(buf, qs, qe, cmd) ==
  LET nextEnd == NextIndex(qe) IN
  IF nextEnd = qs
  THEN [ok |-> TRUE, buf |-> [buf EXCEPT ![qs] = cmd], qe |-> qe]
  ELSE [ok |-> TRUE, buf |-> [buf EXCEPT ![qe] = cmd], qe |-> nextEnd]

\* enqueueCommand taking the ring for full one slot early.
enqueueCommandEarlyFull(buf, qs, qe, cmd) ==
  LET nextEnd == NextIndex(qe) IN
  IF nextEnd = qs \/ NextIndex(nextEnd) = qs
  THEN [ok |-> FALSE, buf |-> buf, qe |-> qe]
  ELSE [ok |-> TRUE, buf |-> [buf EXCEPT ![qe] = cmd], qe |-> nextEnd]

\* enqueueCommand (lines 259-270) on the ring (buf, qs, qe).
enqueueCommand(buf, qs, qe, cmd) ==
  LET nextEnd == NextIndex(qe) IN
  IF nextEnd = qs
  THEN [ok |-> FALSE, buf |-> buf, qe |-> qe]
  ELSE [ok |-> TRUE, buf |-> [buf EXCEPT ![qe] = cmd], qe |-> nextEnd]

\* The replies of _onWsEvent and loop().
Pong == [status |-> "ok", message |-> "pong"]
PixelCountMsg == [status |-> "ok", pixelCount |-> NumPixels]
ErrMsg(e) == [status |-> "error", error |-> e]
ErrIdMsg(e, id) == [status |-> "error", error |-> e, id |-> id]
OobMsg(id) ==
  [status |-> "error", error |-> "index_out_of_bounds", id |-> id,
   max |-> ToUint32(NumPixels - 1)]
AckMsg(id) == [status |-> "ok", ack |-> id]

Send(c, m) == [ev |-> "send", to |-> c, msg |-> m]

\* The Command a JSON object with a non-zero id is translated into (lines
\* 330-378): its fields, whether it is valid, and the error sent when it is not.
BuildCommand(client, doc, id) ==
  LET base == [EmptySlot EXCEPT !.clientId = client, !.commandId = id]
      cmd == JsonCmd(doc)
      rgb(c) == [c EXCEPT !.r = ToUint8(JsonOr(doc, "r", 0)),
                          !.g = ToUint8(JsonOr(doc, "g", 0)),
                          !.b = ToUint8(JsonOr(doc, "b", 0))]
  IN
  CASE cmd = "setColor" ->
         [valid |-> TRUE, command |-> rgb([base EXCEPT !.type = "SET_COLOR"]),
          sent |-> <<>>]
    [] cmd = "clear" ->
         [valid |-> TRUE, command |-> [base EXCEPT !.type = "CLEAR"], sent |-> <<>>]
    [] cmd = "setPixelColor" ->
         LET c == rgb([base EXCEPT !.type = "SET_PIXEL_COLOR",
                                   !.index = ToUint16(JsonOr(doc, "index", 0))])
         IN IF c.index >= NumPixels
            THEN [valid |-> FALSE, command |-> c, sent |-> <<Send(client, OobMsg(id))>>]
            ELSE [valid |-> TRUE, command |-> c, sent |-> <<>>]
    [] cmd = "show" ->
         [valid |-> TRUE, command |-> [base EXCEPT !.type = "SHOW"], sent |-> <<>>]
    [] cmd = "setBrightness" ->
         [valid |-> TRUE,
          command |-> [base EXCEPT !.type = "SET_BRIGHTNESS",
                                   !.brightness = ToUint8(JsonOr(doc, "brightness", 255))],
          sent |-> <<>>]
    [] OTHER ->
         [valid |-> FALSE, command |-> base,
          sent |-> <<Send(client, ErrIdMsg("unknown_cmd", id))>>]

\* _onWsEvent checking the id only after it has translated the command, so
\* that unknown_cmd and index_out_of_bounds win over missing_id.
HandleTextIdLast(buf, qs, qe, client, frame) ==
  LET same(t) == [buf |-> buf, qe |-> qe, trace |-> t]
      doc == frame.doc
      cmd == JsonCmd(doc)
      id == ToUint32(JsonOr(doc, "id", 0))
  IN
  IF frame.payload = "ping" THEN same(<<Send(client, Pong)>>)
  ELSE IF frame.payload # "json" THEN same(<<Send(client, ErrMsg("bad_json"))>>)
  ELSE IF cmd = "ping" THEN same(<<Send(client, Pong)>>)
  ELSE IF cmd = "getPixelCount" THEN same(<<Send(client, PixelCountMsg)>>)
  ELSE
    LET built == BuildCommand(client, doc, id) IN
    IF ~built.valid THEN same(built.sent)
    ELSE IF id = ToUint32(0) THEN same(<<Send(client, ErrMsg("missing_id"))>>)
    ELSE
      LET res == enqueueCommand(buf, qs, qe, built.command)
          enq == [ev |-> "enqueue", cmd |-> built.command, ok |-> res.ok]
      IN [buf |-> res.buf, qe |-> res.qe,
          trace |-> IF res.ok THEN <<enq>>
                    ELSE <<enq, Send(client, ErrIdMsg("queue_full", id))>>]

\* _onWsEvent checking the id of every JSON message first, the liveness
\* checks included.
HandleTextIdFirst(buf, qs, qe, client, frame) ==
  LET same(t) == [buf |-> buf, qe |-> qe, trace |-> t]
      doc == frame.doc
      cmd == JsonCmd(doc)
      id == ToUint32(JsonOr(doc, "id", 0))
  IN
  IF frame.payload = "ping" THEN same(<<Send(client, Pong)>>)
  ELSE IF frame.payload # "json" THEN same(<<Send(client, ErrMsg("bad_json"))>>)
  ELSE IF id = ToUint32(0) THEN same(<<Send(client, ErrMsg("missing_id"))>>)
  ELSE IF cmd = "ping" THEN same(<<Send(client, Pong)>>)
  ELSE IF cmd = "getPixelCount" THEN same(<<Send(client, PixelCountMsg)>>)
  ELSE
    LET built == BuildCommand(client, doc, id) IN
    IF ~built.valid THEN same(built.sent)
    ELSE
      LET res == enqueueCommand(buf, qs, qe, built.command)
          enq == [ev |-> "enqueue", cmd |-> built.command, ok |-> res.ok]
      IN [buf |-> res.buf, qe |-> res.qe,
          trace |-> IF res.ok THEN <<enq>>
                    ELSE <<enq, Send(client, ErrIdMsg("queue_full", id))>>]

\* _onWsEvent acknowledging a command as soon as it is in the ring.
HandleTextAcksOnEnqueue(buf, qs, qe, client, frame) ==
  LET same(t) == [buf |-> buf, qe |-> qe, trace |-> t]
      doc == frame.doc
      cmd == JsonCmd(doc)
      id == ToUint32(JsonOr(doc, "id", 0))
  IN
  IF frame.payload = "ping" THEN same(<<Send(client, Pong)>>)
  ELSE IF frame.payload # "json" THEN same(<<Send(client, ErrMsg("bad_json"))>>)
  ELSE IF cmd = "ping" THEN same(<<Send(client, Pong)>>)
  ELSE IF cmd = "getPixelCount" THEN same(<<Send(client, PixelCountMsg)>>)
  ELSE IF id = ToUint32(0) THEN same(<<Send(client, ErrMsg("missing_id"))>>)
  ELSE
    LET built == BuildCommand(client, doc, id) IN
    IF ~built.valid THEN same(built.sent)
    ELSE
      LET res == enqueueCommand(buf, qs, qe, built.command)
          enq == [ev |-> "enqueue", cmd |-> built.command, ok |-> res.ok]
      IN [buf |-> res.buf, qe |-> res.qe,
          trace |-> IF res.ok THEN <<enq, Send(client, AckMsg(id))>>
                    ELSE <<enq, Send(client, ErrIdMsg("queue_full", id))>>]

\* _onWsEvent putting a command in the ring although its validation failed.
HandleTextEnqueuesInvalid(buf, qs, qe, client, frame) ==
  LET same(t) == [buf |-> buf, qe |-> qe, trace |-> t]
      doc == frame.doc
      cmd == JsonCmd(doc)
      id == ToUint32(JsonOr(doc, "id", 0))
  IN
  IF frame.payload = "ping" THEN same(<<Send(client, Pong)>>)
  ELSE IF frame.payload # "json" THEN same(<<Send(client, ErrMsg("bad_json"))>>)
  ELSE IF cmd = "ping" THEN same(<<Send(client, Pong)>>)
  ELSE IF cmd = "getPixelCount" THEN same(<<Send(client, PixelCountMsg)>>)
  ELSE IF id = ToUint32(0) THEN same(<<Send(client, ErrMsg("missing_id"))>>)
  ELSE
    LET built == BuildCommand(client, doc, id)
        res == enqueueCommand(buf, qs, qe, built.command)
        enq == [ev |-> "enqueue", cmd |-> built.command, ok |-> res.ok]
    IN [buf |-> res.buf, qe |-> res.qe,
        trace |-> built.sent \o
                  (IF res.ok THEN <<enq>>
                   ELSE <<enq, Send(client, ErrIdMsg("queue_full", id))>>)]

\* _onWsEvent for a final text frame (lines 283-396): the ring afterwards and
\* what the handler did (enqueue attempts and replies, in program order).
HandleText(buf, qs, qe, client, frame) ==
  LET same(t) == [buf |-> buf, qe |-> qe, trace |-> t]
      doc == frame.doc
      cmd == JsonCmd(doc)
      id == ToUint32(JsonOr(doc, "id", 0))
  IN
  IF frame.payload = "ping" THEN same(<<Send(client, Pong)>>)
  ELSE IF frame.payload # "json" THEN same(<<Send(client, ErrMsg("bad_json"))>>)
  ELSE IF cmd = "ping" THEN same(<<Send(client, Pong)>>)
  ELSE IF cmd = "getPixelCount" THEN same(<<Send(client, PixelCountMsg)>>)
  ELSE IF id = ToUint32(0) THEN same(<<Send(client, ErrMsg("missing_id"))>>)
  ELSE
    LET built == BuildCommand(client, doc, id) IN
    IF ~built.valid THEN same(built.sent)
    ELSE
      LET res == enqueueCommand(buf, qs, qe, built.command)
          enq == [ev |-> "enqueue", cmd |-> built.command, ok |-> res.ok]
      IN [buf |-> res.buf, qe |-> res.qe,
          trace |-> IF res.ok THEN <<enq>>
                    ELSE <<enq, Send(client, ErrIdMsg("queue_full", id))>>]

\* The commands a handler's trace shows as accepted by enqueueCommand.
Accepted(t) ==
  LET idx == { i \in 1..Len(t) : t[i].ev = "enqueue" /\ t[i].ok } IN
  IF idx = {} THEN <<>> ELSE <<t[CHOOSE i \in idx : TRUE].cmd>>

-----------------------------------------------------------------------------
\* The switch with a CLEAR case that also pushes the buffer to the LEDs.
ExecuteClearShows(cmd, strip) ==
  CASE cmd.type = "SET_PIXEL_COLOR" ->
         [strip EXCEPT !.pixels =
            IF cmd.index \in DOMAIN strip.pixels
            THEN [strip.pixels EXCEPT ![cmd.index] = <<cmd.r, cmd.g, cmd.b>>]
            ELSE strip.pixels]
    [] cmd.type = "SET_COLOR" ->
         [strip EXCEPT !.pixels = [i \in 0..(NumPixels - 1) |-> <<cmd.r, cmd.g, cmd.b>>]]
    [] cmd.type = "CLEAR" ->
         [strip EXCEPT !.pixels = [i \in 0..(NumPixels - 1) |-> Black],
                       !.output = [pixels |-> [i \in 0..(NumPixels - 1) |-> Black],
                                   brightness |-> strip.brightness]]
    [] cmd.type = "SHOW" ->
         [strip EXCEPT !.output = [pixels |-> strip.pixels, brightness |-> strip.brightness]]
    [] cmd.type = "SET_BRIGHTNESS" ->
         [strip EXCEPT !.brightness = cmd.brightness]
    [] OTHER -> strip

\* The strip after a Command's switch case (lines 179-197).
Execute(cmd, strip) ==
  CASE cmd.type = "SET_PIXEL_COLOR" ->
         [strip EXCEPT !.pixels =
            IF cmd.index \in DOMAIN strip.pixels
            THEN [strip.pixels EXCEPT ![cmd.index] = <<cmd.r, cmd.g, cmd.b>>]
            ELSE strip.pixels]
    [] cmd.type = "SET_COLOR" ->
         [strip EXCEPT !.pixels = [i \in 0..(NumPixels - 1) |-> <<cmd.r, cmd.g, cmd.b>>]]
    [] cmd.type = "CLEAR" ->
         [strip EXCEPT !.pixels = [i \in 0..(NumPixels - 1) |-> Black]]
    [] cmd.type = "SHOW" ->
         [strip EXCEPT !.output = [pixels |-> strip.pixels, brightness |-> strip.brightness]]
    [] cmd.type = "SET_BRIGHTNESS" ->
         [strip EXCEPT !.brightness = cmd.brightness]
    [] OTHER -> strip

\* The loop body reading the slot after advancing queueStart.
LoopIterationReadsNext(ls, buf, conn) ==
  LET cmd == buf[NextIndex(ls.qs)]
      ack == IF cmd.clientId \in conn
             THEN <<Send(cmd.clientId, AckMsg(cmd.commandId))>> ELSE <<>>
  IN [qs |-> NextIndex(ls.qs),
      strip |-> Execute(cmd, ls.strip),
      trace |-> ls.trace \o <<[ev |-> "apply", cmd |-> cmd]>> \o ack]

\* The loop body leaving queueStart where it is.
LoopIterationNoAdvance(ls, buf, conn) ==
  LET cmd == buf[ls.qs]
      ack == IF cmd.clientId \in conn
             THEN <<Send(cmd.clientId, AckMsg(cmd.commandId))>> ELSE <<>>
  IN [qs |-> ls.qs,
      strip |-> Execute(cmd, ls.strip),
      trace |-> ls.trace \o <<[ev |-> "apply", cmd |-> cmd]>> \o ack]

\* The loop body acknowledging before it executes.
LoopIterationAcksFirst(ls, buf, conn) ==
  LET cmd == buf[ls.qs]
      ack == IF cmd.clientId \in conn
             THEN <<Send(cmd.clientId, AckMsg(cmd.commandId))>> ELSE <<>>
  IN [qs |-> NextIndex(ls.qs),
      strip |-> Execute(cmd, ls.strip),
      trace |-> ls.trace \o ack \o <<[ev |-> "apply", cmd |-> cmd]>>]

\* The loop body skipping the command of a client that has gone.
LoopIterationSkipsGone(ls, buf, conn) ==
  LET cmd == buf[ls.qs] IN
  IF cmd.clientId \in conn
  THEN [qs |-> NextIndex(ls.qs),
        strip |-> Execute(cmd, ls.strip),
        trace |-> ls.trace \o <<[ev |-> "apply", cmd |-> cmd],
                                Send(cmd.clientId, AckMsg(cmd.commandId))>>]
  ELSE [qs |-> NextIndex(ls.qs), strip |-> ls.strip, trace |-> ls.trace]

\* The loop body sending the ack without looking the client up.
LoopIterationAcksGone(ls, buf, conn) ==
  LET cmd == buf[ls.qs]
  IN [qs |-> NextIndex(ls.qs),
      strip |-> Execute(cmd, ls.strip),
      trace |-> ls.trace \o <<[ev |-> "apply", cmd |-> cmd],
                              Send(cmd.clientId, AckMsg(cmd.commandId))>>]

\* One iteration of loop()'s while body (lines 175-208) on the loop's state ls.
LoopIteration(ls, buf, conn) ==
  LET cmd == buf[ls.qs]
      ack == IF cmd.clientId \in conn
             THEN <<Send(cmd.clientId, AckMsg(cmd.commandId))>> ELSE <<>>
  IN [qs |-> NextIndex(ls.qs),
      strip |-> Execute(cmd, ls.strip),
      trace |-> ls.trace \o <<[ev |-> "apply", cmd |-> cmd]>> \o ack]

\* loop()'s while without the cap on processed.
RECURSIVE DrainAll(_, _, _, _, _)
DrainAll(ls, processed, buf, qe, conn) ==
  IF ls.qs # qe
  THEN DrainAll(LoopIteration(ls, buf, conn), processed + 1, buf, qe, conn)
  ELSE ls

\* loop()'s while with the cap tested as processed <= COMMANDS_PER_LOOP.
RECURSIVE DrainOneMore(_, _, _, _, _)
DrainOneMore(ls, processed, buf, qe, conn) ==
  IF ls.qs # qe /\ processed <= COMMANDS_PER_LOOP
  THEN DrainOneMore(LoopIteration(ls, buf, conn), processed + 1, buf, qe, conn)
  ELSE ls

\* loop()'s while (lines 172-173, 208), from `processed` iterations done.
RECURSIVE Drain(_, _, _, _, _)
Drain(ls, processed, buf, qe, conn) ==
  IF ls.qs # qe /\ processed < COMMANDS_PER_LOOP
  THEN Drain(LoopIteration(ls, buf, conn), processed + 1, buf, qe, conn)
  ELSE ls

\* The commands a trace shows as executed, in order.
RECURSIVE Applied(_)
Applied(t) ==
  IF t = <<>> THEN <<>>
  ELSE (IF Head(t).ev = "apply" THEN <<Head(t).cmd>> ELSE <<>>) \o Applied(Tail(t))

-----------------------------------------------------------------------------
\* The state after the constructor and begin() (lines 36-39, 95-96, 255-257).
Init ==
  /\ commandQueue = [i \in 0..(QUEUE_SIZE - 1) |-> EmptySlot]
  /\ queueStart = 0
  /\ queueEnd = 0
  /\ pixels = [i \in 0..(NumPixels - 1) |-> Black]
  /\ brightness = 255
  /\ output = [pixels |-> [i \in 0..(NumPixels - 1) |-> Black], brightness |-> 255]
  /\ connected = {}
  /\ nextClientId = 1
  /\ enqueued = <<>>
  /\ applied = <<>>
  /\ call = [op |-> "begin"]
  /\ trace = <<>>
  /\ enqCall = [c \in ClientIds |->
                  [pc |-> "idle", calls |-> 0, nextEnd |-> 0, cmd |-> EmptySlot]]
  /\ loopCall = [pc |-> "idle", processed |-> 0, cmd |-> EmptySlot]

\* WS_EVT_CONNECT (lines 275-278): the registry gains a client; the handler logs.
Connect ==
  /\ nextClientId \in ClientIds
  /\ connected' = connected \cup {nextClientId}
  /\ nextClientId' = nextClientId + 1
  /\ call' = [op |-> "connect", client |-> nextClientId]
  /\ trace' = <<>>
  /\ UNCHANGED <<queueVars, stripVars, enqueued, applied, stepVars>>

\* WS_EVT_DISCONNECT (lines 279-282): the client is gone; its id is not reused.
Disconnect(c) ==
  /\ c \in connected
  /\ connected' = connected \ {c}
  /\ call' = [op |-> "disconnect", client |-> c]
  /\ trace' = <<>>
  /\ UNCHANGED <<queueVars, stripVars, nextClientId, enqueued, applied, stepVars>>

\* WS_EVT_DATA with a final text frame from a connected client (lines 283-396).
OnWsData(c, frame, cap) ==
  /\ c \in connected
  /\ Len(enqueued) < cap
  /\ LET h == HandleText(commandQueue, queueStart, queueEnd, c, frame) IN
       /\ commandQueue' = h.buf
       /\ queueEnd' = h.qe
       /\ trace' = h.trace
       /\ enqueued' = enqueued \o Accepted(h.trace)
  /\ call' = [op |-> "ws", client |-> c, frame |-> frame]
  /\ UNCHANGED <<queueStart, stripVars, wsVars, applied, stepVars>>

\* loop() (lines 167-210).
Loop ==
  LET ls == Drain([qs |-> queueStart,
                   strip |-> [pixels |-> pixels, brightness |-> brightness,
                              output |-> output],
                   trace |-> <<>>],
                  0, commandQueue, queueEnd, connected)
  IN /\ queueStart' = ls.qs
     /\ pixels' = ls.strip.pixels
     /\ brightness' = ls.strip.brightness
     /\ output' = ls.strip.output
     /\ trace' = ls.trace
     /\ applied' = applied \o Applied(ls.trace)
     /\ call' = [op |-> "loop"]
     /\ UNCHANGED <<commandQueue, queueEnd, wsVars, enqueued, stepVars>>

\* What an HTTP handler did: the strip calls it made, then its response.
Touch(op) == [ev |-> "strip", op |-> op]
Respond(code) == [ev |-> "http", code |-> code]

\* An HTTP handler that leaves the strip alone: GET /api/pixelCount, GET and
\* POST /ping (lines 105-120).
HttpInfo(route) ==
  /\ call' = [op |-> "http", route |-> route]
  /\ trace' = <<Respond(200)>>
  /\ UNCHANGED <<queueVars, stripVars, wsVars, enqueued, applied, stepVars>>

\* POST /api/setColor (lines 122-132): this->setColor(r, g, b), lines 212-216.
HttpSetColor(params) ==
  /\ call' = [op |-> "http", route |-> "/api/setColor"]
  /\ IF {"r", "g", "b"} \subseteq DOMAIN params
     THEN /\ pixels' = [i \in 0..(NumPixels - 1) |->
                          <<ToUint8(params.r), ToUint8(params.g), ToUint8(params.b)>>]
          /\ trace' = <<Touch("setPixelColor"), Respond(200)>>
     ELSE /\ pixels' = pixels
          /\ trace' = <<Respond(400)>>
  /\ UNCHANGED <<queueVars, brightness, output, wsVars, enqueued, applied, stepVars>>

\* POST and GET /api/clear (lines 134-142).
HttpClear ==
  /\ call' = [op |-> "http", route |-> "/api/clear"]
  /\ pixels' = [i \in 0..(NumPixels - 1) |-> Black]
  /\ trace' = <<Touch("clear"), Respond(200)>>
  /\ UNCHANGED <<queueVars, brightness, output, wsVars, enqueued, applied, stepVars>>

\* POST /api/setBrightness (lines 144-152).
HttpSetBrightness(params) ==
  /\ call' = [op |-> "http", route |-> "/api/setBrightness"]
  /\ IF "brightness" \in DOMAIN params
     THEN /\ brightness' = ToUint8(params.brightness)
          /\ trace' = <<Touch("setBrightness"), Respond(200)>>
     ELSE /\ brightness' = brightness
          /\ trace' = <<Respond(400)>>
  /\ UNCHANGED <<queueVars, pixels, output, wsVars, enqueued, applied, stepVars>>

\* POST /api/show (lines 154-158): this->show(), lines 231-234.
HttpShow ==
  /\ call' = [op |-> "http", route |-> "/api/show"]
  /\ output' = [pixels |-> pixels, brightness |-> brightness]
  /\ trace' = <<Touch("show"), Respond(200)>>
  /\ UNCHANGED <<queueVars, pixels, brightness, wsVars, enqueued, applied, stepVars>>

Http ==
  \/ \E route \in {"/api/pixelCount", "/ping"} : HttpInfo(route)
  \/ \E p \in ColorParams : HttpSetColor(p)
  \/ HttpClear
  \/ \E p \in BrightnessParams : HttpSetBrightness(p)
  \/ HttpShow

Next ==
  \/ Connect
  \/ \E c \in ClientIds : Disconnect(c)
  \/ \E c \in ClientIds, f \in Frames : OnWsData(c, f, MaxEnq)
  \/ Loop

Spec == Init /\ [][Next]_vars

\* Whether a loop() call would change the state: the ring holds a command, or
\* the last handler was another one, or it left a trace.
LoopChanges == queueStart # queueEnd \/ call # [op |-> "loop"] \/ trace # <<>>

\* The sketch calls loop() from the Arduino main loop, forever: weak fairness
\* of Loop, WF_vars(Loop), with ENABLED <<Loop>>_vars written as LoopChanges.
LiveSpec == Spec /\ ([]<>(~LoopChanges) \/ []<><<Loop>>_vars)

NextWide ==
  \/ Connect
  \/ \E c \in ClientIds : Disconnect(c)
  \/ \E c \in ClientIds, f \in WideFrames : OnWsData(c, f, MaxWideEnq)
  \/ Loop
  \/ Http

SpecWide == Init /\ [][NextWide]_vars

-----------------------------------------------------------------------------
(* enqueueCommand and loop() statement by statement.  The handlers of the    *)
(* WebSocket run enqueueCommand, the sketch's main loop runs loop(); nothing *)
(* in the code (no lock, no atomic, no volatile) keeps a statement of one    *)
(* from running between two statements of another.  Each step is one read or *)
(* write of queueStart, queueEnd or a slot, in program order.                *)

\* The Command of a client's k-th message, a show with id k (lines 330-368).
StepCommand(c, k) == BuildCommand(c, [cmd |-> "show", id |-> k], ToUint32(k)).command

\* Line 261: nextEnd = (queueEnd + 1) % QUEUE_SIZE, the first read of queueEnd.
EnqReadEnd(c) ==
  /\ c \in connected
  /\ enqCall[c].pc = "idle"
  /\ enqCall[c].calls < MaxCalls
  /\ enqCall' = [enqCall EXCEPT ![c] =
                   [pc |-> "test", calls |-> @.calls + 1,
                    nextEnd |-> NextIndex(queueEnd),
                    cmd |-> StepCommand(c, @.calls + 1)]]
  /\ call' = [op |-> "enqueueCommand", client |-> c, line |-> 261]
  /\ trace' = <<>>
  /\ UNCHANGED <<queueVars, stripVars, wsVars, enqueued, applied, loopCall>>

\* Lines 262-266: the read of queueStart; on a full ring the call returns false.
EnqTestFull(c) ==
  /\ enqCall[c].pc = "test"
  /\ enqCall' = [enqCall EXCEPT ![c].pc =
                   IF enqCall[c].nextEnd = queueStart THEN "idle" ELSE "store"]
  /\ call' = [op |-> "enqueueCommand", client |-> c, line |-> 262]
  /\ trace' = IF enqCall[c].nextEnd = queueStart
              THEN <<[ev |-> "enqueue", cmd |-> enqCall[c].cmd, ok |-> FALSE]>>
              ELSE <<>>
  /\ UNCHANGED <<queueVars, stripVars, wsVars, enqueued, applied, loopCall>>

\* Line 267: commandQueue[queueEnd] = cmd, the second read of queueEnd.
EnqStore(c) ==
  /\ enqCall[c].pc = "store"
  /\ commandQueue' = [commandQueue EXCEPT ![queueEnd] = enqCall[c].cmd]
  /\ enqCall' = [enqCall EXCEPT ![c].pc = "publish"]
  /\ call' = [op |-> "enqueueCommand", client |-> c, line |-> 267]
  /\ trace' = <<>>
  /\ UNCHANGED <<queueStart, queueEnd, stripVars, wsVars, enqueued, applied, loopCall>>

\* Lines 268-269: queueEnd = nextEnd, and the call returns true.
EnqPublish(c) ==
  /\ enqCall[c].pc = "publish"
  /\ queueEnd' = enqCall[c].nextEnd
  /\ enqCall' = [enqCall EXCEPT ![c].pc = "idle"]
  /\ enqueued' = enqueued \o <<enqCall[c].cmd>>
  /\ call' = [op |-> "enqueueCommand", client |-> c, line |-> 268]
  /\ trace' = <<[ev |-> "enqueue", cmd |-> enqCall[c].cmd, ok |-> TRUE]>>
  /\ UNCHANGED <<commandQueue, queueStart, stripVars, wsVars, applied, loopCall>>

\* Lines 169-172: loop() is called; processed = 0.
LoopEnter ==
  /\ loopCall.pc = "idle"
  /\ loopCall' = [loopCall EXCEPT !.pc = "test", !.processed = 0]
  /\ call' = [op |-> "loopStep", line |-> 172]
  /\ trace' = <<>>
  /\ UNCHANGED <<queueVars, stripVars, wsVars, enqueued, applied, enqCall>>

\* Line 173: the while test, the read of queueEnd (queueStart is loop()'s own).
LoopTest ==
  /\ loopCall.pc = "test"
  /\ loopCall' = [loopCall EXCEPT !.pc =
                    IF queueStart # queueEnd /\ loopCall.processed < COMMANDS_PER_LOOP
                    THEN "read" ELSE "idle"]
  /\ call' = [op |-> "loopStep", line |-> 173]
  /\ trace' = <<>>
  /\ UNCHANGED <<queueVars, stripVars, wsVars, enqueued, applied, enqCall>>

\* Line 175: Command cmd = commandQueue[queueStart].
LoopRead ==
  /\ loopCall.pc = "read"
  /\ loopCall' = [loopCall EXCEPT !.pc = "advance", !.cmd = commandQueue[queueStart]]
  /\ call' = [op |-> "loopStep", line |-> 175]
  /\ trace' = <<>>
  /\ UNCHANGED <<queueVars, stripVars, wsVars, enqueued, applied, enqCall>>

\* Line 176: queueStart = (queueStart + 1) % QUEUE_SIZE.
LoopAdvance ==
  /\ loopCall.pc = "advance"
  /\ queueStart' = NextIndex(queueStart)
  /\ loopCall' = [loopCall EXCEPT !.pc = "execute"]
  /\ call' = [op |-> "loopStep", line |-> 176]
  /\ trace' = <<>>
  /\ UNCHANGED <<commandQueue, queueEnd, stripVars, wsVars, enqueued, applied, enqCall>>

\* Lines 179-208: the switch, the ack, processed++.
LoopExecute ==
  /\ loopCall.pc = "execute"
  /\ LET cmd == loopCall.cmd
         strip == Execute(cmd, [pixels |-> pixels, brightness |-> brightness,
                                output |-> output])
     IN /\ pixels' = strip.pixels
        /\ brightness' = strip.brightness
        /\ output' = strip.output
        /\ applied' = applied \o <<cmd>>
        /\ trace' = <<[ev |-> "apply", cmd |-> cmd]>> \o
                      (IF cmd.clientId \in connected
                       THEN <<Send(cmd.clientId, AckMsg(cmd.commandId))>> ELSE <<>>)
  /\ loopCall' = [loopCall EXCEPT !.pc = "test", !.processed = @ + 1]
  /\ call' = [op |-> "loopStep", line |-> 179]
  /\ UNCHANGED <<queueVars, wsVars, enqueued, enqCall>>

NextSteps ==
  \/ Connect
  \/ \E c \in ClientIds : EnqReadEnd(c)
  \/ \E c \in ClientIds : EnqTestFull(c)
  \/ \E c \in ClientIds : EnqStore(c)
  \/ \E c \in ClientIds : EnqPublish(c)
  \/ LoopEnter
  \/ LoopTest
  \/ LoopRead
  \/ LoopAdvance
  \/ LoopExecute

SpecSteps == Init /\ [][NextSteps]_vars

-----------------------------------------------------------------------------
(* What the claims speak of.                                                 *)

\* The uint32_t whose value is the number n >= 0: what a reply shows when it
\* carries the number n.
Unsigned(n) == [hi |-> n \div Uint16, lo |-> n % Uint16]

IsPrefix(a, b) == Len(a) <= Len(b) /\ SubSeq(b, 1, Len(a)) = a

\* The commands the ring holds now.
Pending == Buffered(commandQueue, queueStart, queueEnd)

\* How many accepted commands have not been executed yet.
Depth == Len(enqueued) - Len(applied)

\* The slots of the ring that hold a command loop() has not read yet.
UnreadSlots == { (queueStart + k) % QUEUE_SIZE : k \in 0..(Len(Pending) - 1) }

\* The enqueueCommand calls of a trace.
EnqueueCalls(t) == { i \in 1..Len(t) : t[i].ev = "enqueue" }

IsAck(e) == e.ev = "send" /\ "ack" \in DOMAIN e.msg

IsError(e, err) ==
  e.ev = "send" /\ "error" \in DOMAIN e.msg /\ e.msg.error = err

\* C1: loop() executes the accepted commands in the order enqueueCommand
\* accepted them, whichever clients sent them and however often the indices
\* have wrapped: the executed commands are always an initial part of the
\* accepted ones.
C1_Fifo == IsPrefix(applied, enqueued)

\* C1's case: more commands than the ring has slots were executed, so both
\* indices have wrapped, and two clients' commands are among them.
C1_Witness ==
  /\ Len(applied) > QUEUE_SIZE
  /\ \E i, j \in 1..Len(applied) :
       /\ i < j
       /\ applied[i].clientId # applied[j].clientId
       /\ applied[i].type # applied[j].type

\* C2 as amended: enqueueCommand succeeds if and only if fewer than
\* QUEUE_SIZE - 1 commands are buffered, and never more than QUEUE_SIZE - 1
\* are pending at once.
C2_Capacity ==
  /\ [](Depth <= QUEUE_SIZE - 1)
  /\ [][\A i \in EnqueueCalls(trace') :
          trace'[i].ok <=> (Depth < QUEUE_SIZE - 1)]_vars

\* C2's case: QUEUE_SIZE - 1 commands are pending and one more was rejected
\* with queue_full.
C2_Witness ==
  /\ Depth = QUEUE_SIZE - 1
  /\ call.op = "ws"
  /\ \E i \in 1..Len(trace) : IsError(trace[i], "queue_full")

\* C2 as claimed: enqueueCommand succeeds if and only if fewer than QUEUE_SIZE
\* commands are buffered (QUEUE_SIZE commands can be pending at once).
C2_AsClaimed ==
  [][\A i \in EnqueueCalls(trace') :
       trace'[i].ok <=> (Depth < QUEUE_SIZE)]_vars

\* C3: every accepted command is executed exactly once: at any moment the
\* accepted commands are the executed ones followed by the ones still in the
\* ring, so none is executed twice, none is lost, and all are executed once the
\* ring is empty; and a message answered with an error adds nothing to the ring
\* or to the accepted commands, so it is never executed.
C3_ExactlyOnce ==
  /\ [](enqueued = applied \o Pending)
  /\ [][(call'.op = "ws" /\ \E i \in 1..Len(trace') :
           trace'[i].ev = "send" /\ "error" \in DOMAIN trace'[i].msg)
        => /\ UNCHANGED <<commandQueue, queueStart, queueEnd, enqueued, applied>>
           /\ Pending' = Pending]_vars

\* C3's case: more commands than the ring has slots were accepted, and loop()
\* has executed every one of them and emptied the ring.
C3_Witness ==
  /\ Len(enqueued) >= QUEUE_SIZE
  /\ applied = enqueued
  /\ queueStart = queueEnd
  /\ call.op = "loop"

\* C4: an ack is sent only by loop(), and only right after it executed a
\* command of that client with that commandId: a command that enqueueCommand
\* accepted and that has left the ring.
C4_AckImpliesApplied ==
  \A i \in 1..Len(trace) :
    IsAck(trace[i]) =>
      LET n == Len(Applied(SubSeq(trace, 1, i)))
          k == Len(applied) - Len(Applied(trace)) + n
      IN /\ call.op = "loop"
         /\ i > 1
         /\ k >= 1
         /\ k <= Len(enqueued)
         /\ trace[i - 1] = [ev |-> "apply", cmd |-> enqueued[k]]
         /\ enqueued[k].clientId = trace[i].to
         /\ enqueued[k].commandId = trace[i].msg.ack
         /\ Len(enqueued) - Len(Pending) >= k

\* C4's case: loop() acknowledged a command while a later command of the same
\* client is still in the ring, unacknowledged.
C4_Witness ==
  /\ call.op = "loop"
  /\ \E i \in 1..Len(trace) :
       /\ IsAck(trace[i])
       /\ \E j \in 1..Len(Pending) : Pending[j].clientId = trace[i].to

\* C5: an enqueueCommand call on a full ring returns false and changes nothing:
\* not the slots, not the indices, not the buffered commands; and no step ever
\* changes a slot that holds a command loop() has not read yet.
C5_NoOverwrite ==
  [][/\ \A i \in EnqueueCalls(trace') :
          Depth = QUEUE_SIZE - 1 =>
            /\ ~trace'[i].ok
            /\ UNCHANGED <<commandQueue, queueStart, queueEnd, enqueued>>
            /\ Pending' = Pending
     /\ \A s \in UnreadSlots : commandQueue'[s] = commandQueue[s]]_vars

\* C5's case: enqueueCommand was called on a full ring whose indices have
\* wrapped, so that the slot it would write next holds an earlier command's
\* data.
C5_Witness ==
  /\ call.op = "ws"
  /\ \E i \in EnqueueCalls(trace) : ~trace[i].ok
  /\ queueEnd < queueStart
  /\ Len(enqueued) > QUEUE_SIZE - 1
  /\ Len(Pending) = QUEUE_SIZE - 1

\* The JSON object of the frame the WebSocket handler was called with.
CallDoc == call.frame.doc

\* C6 as claimed: a setPixelColor message with a non-zero id and an index
\* >= pixelCount is answered with index_out_of_bounds (that id, max =
\* pixelCount - 1) and nothing else happens; and no SET_PIXEL_COLOR command in
\* the ring or executed has an index >= pixelCount.
C6_AsClaimed ==
  /\ (/\ call.op = "ws"
      /\ call.frame.payload = "json"
      /\ JsonCmd(CallDoc) = "setPixelColor"
      /\ JsonOr(CallDoc, "id", 0) # 0
      /\ JsonOr(CallDoc, "index", 0) >= NumPixels)
     => trace = <<Send(call.client,
                       [status |-> "error", error |-> "index_out_of_bounds",
                        id |-> Unsigned(CallDoc.id),
                        max |-> Unsigned(NumPixels - 1)])>>
  /\ \A i \in 1..Len(enqueued) :
       enqueued[i].type = "SET_PIXEL_COLOR" => enqueued[i].index < NumPixels

\* C7: a valid command that arrives while the ring is full is answered with
\* queue_full and its own id, to its sender, and is dropped: ring, indices and
\* histories stay as they were, so the buffered commands keep their order; a
\* loop() call on a full ring frees at least one slot; and whenever the ring is
\* not full a valid command, from any client, is accepted at the ring's end.
C7_QueueFullRecoverable ==
  [][/\ \A i \in EnqueueCalls(trace') :
          IF Depth = QUEUE_SIZE - 1
          THEN /\ trace' = <<[ev |-> "enqueue", cmd |-> trace'[i].cmd, ok |-> FALSE],
                             Send(call'.client,
                                  [status |-> "error", error |-> "queue_full",
                                   id |-> Unsigned(call'.frame.doc.id)])>>
               /\ trace'[i].cmd.clientId = call'.client
               /\ UNCHANGED <<commandQueue, queueStart, queueEnd, enqueued, applied>>
          ELSE /\ trace' = <<[ev |-> "enqueue", cmd |-> trace'[i].cmd, ok |-> TRUE]>>
               /\ Pending' = Pending \o <<trace'[i].cmd>>
               /\ enqueued' = enqueued \o <<trace'[i].cmd>>
     /\ ((call'.op = "loop" /\ Depth = QUEUE_SIZE - 1) => Depth' < QUEUE_SIZE - 1)]_vars

\* C7's case: a command was accepted from a client after the ring had been
\* full (more commands were accepted than the ring can hold at once) while
\* commands accepted before it are still buffered.
C7_Witness ==
  /\ call.op = "ws"
  /\ \E i \in EnqueueCalls(trace) : trace[i].ok
  /\ Len(enqueued) > QUEUE_SIZE - 1
  /\ Len(Pending) = QUEUE_SIZE - 1

\* C8: with loop() called again and again, the k-th accepted command is
\* eventually the k-th executed one, whether its client is still connected or
\* not and whatever arrives later; and a command leaves the ring only by being
\* executed.
C8_AcceptedExecutes ==
  /\ \A k \in 1..MaxEnq :
       (Len(enqueued) >= k) ~> (Len(applied) >= k /\ applied[k] = enqueued[k])
  /\ [][queueStart' # queueStart =>
          \E n \in 1..Len(Pending) :
            /\ applied' = applied \o SubSeq(Pending, 1, n)
            /\ Pending' = SubSeq(Pending, n + 1, Len(Pending))]_vars

\* C8's case: loop() executed the command of a client that had already
\* disconnected, with a later command still in the ring.
C8_Witness ==
  /\ call.op = "loop"
  /\ \E i \in 1..Len(trace) :
       trace[i].ev = "apply" /\ trace[i].cmd.clientId \notin connected
  /\ Pending # <<>>

\* C9: one loop() call executes exactly min(COMMANDS_PER_LOOP, buffered)
\* commands, the oldest ones, sends at most one ack for each, and leaves the
\* rest in the ring in their order.
C9_DrainCap ==
  [][call'.op = "loop" =>
       LET n == Min(COMMANDS_PER_LOOP, Len(Pending)) IN
         /\ Applied(trace') = SubSeq(Pending, 1, n)
         /\ applied' = applied \o SubSeq(Pending, 1, n)
         /\ Pending' = SubSeq(Pending, n + 1, Len(Pending))
         /\ Cardinality({ i \in 1..Len(trace') : IsAck(trace'[i]) }) <= n
         /\ Len(trace') <= 2 * COMMANDS_PER_LOOP]_vars

\* C9's case: loop() ran on a backlog larger than COMMANDS_PER_LOOP: it
\* executed COMMANDS_PER_LOOP commands and the ring still holds the rest.
C9_Witness ==
  /\ call.op = "loop"
  /\ Len(Applied(trace)) = COMMANDS_PER_LOOP
  /\ Pending # <<>>

\* C10 as claimed: after begin() only loop() touches the strip: whatever a
\* WebSocket or HTTP handler does, it makes no call on the strip.
C10_AsClaimed ==
  call.op # "loop" =>
    \A i \in 1..Len(trace) : trace[i].ev \notin {"apply", "strip"}

\* A WebSocket step that handled a JSON object.
IsJsonCall(c) == c.op = "ws" /\ c.frame.payload = "json"

\* The cmd values answered as liveness checks (lines 304, 312).
BypassCmds == {"ping", "getPixelCount"}

\* C11: a JSON message whose cmd is neither ping nor getPixelCount and whose
\* id is absent or 0 is answered with missing_id and nothing else, whatever its
\* cmd and index are: no enqueueCommand call, ring, indices and histories
\* unchanged; and unknown_cmd and index_out_of_bounds are sent only for a
\* message that carries a non-zero id.
C11_MissingIdFirst ==
  [][IsJsonCall(call') =>
       LET doc == call'.frame.doc IN
       /\ (JsonCmd(doc) \notin BypassCmds /\ ("id" \notin DOMAIN doc \/ doc.id = 0))
            => /\ trace' = <<[ev |-> "send", to |-> call'.client,
                              msg |-> [status |-> "error", error |-> "missing_id"]]>>
               /\ UNCHANGED <<commandQueue, queueStart, queueEnd, enqueued, applied>>
               /\ Pending' = Pending
       /\ \A i \in 1..Len(trace') :
            (IsError(trace'[i], "unknown_cmd") \/ IsError(trace'[i], "index_out_of_bounds"))
              => "id" \in DOMAIN doc /\ doc.id # 0]_vars

\* C11's case: a setPixelColor message without an id and with an index out of
\* range was answered with missing_id.
C11_Witness ==
  /\ IsJsonCall(call)
  /\ JsonCmd(CallDoc) = "setPixelColor"
  /\ "id" \notin DOMAIN CallDoc
  /\ CallDoc.index >= NumPixels
  /\ \E i \in 1..Len(trace) : IsError(trace[i], "missing_id")

\* C12: the bare text "ping" and a JSON message with cmd ping are answered
\* with pong, a JSON message with cmd getPixelCount with pixelCount = N, to the
\* sender and at once, with or without an id and also on a full ring; ring,
\* indices, histories and strip stay as they were.
C12_LivenessBypass ==
  [][(call'.op = "ws" /\ (\/ call'.frame.payload = "ping"
                          \/ /\ call'.frame.payload = "json"
                             /\ JsonCmd(call'.frame.doc) \in BypassCmds))
      => /\ trace' =
              <<[ev |-> "send", to |-> call'.client,
                 msg |-> IF /\ call'.frame.payload = "json"
                            /\ JsonCmd(call'.frame.doc) = "getPixelCount"
                         THEN [status |-> "ok", pixelCount |-> NumPixels]
                         ELSE [status |-> "ok", message |-> "pong"]]>>
         /\ UNCHANGED <<commandQueue, queueStart, queueEnd, pixels, brightness,
                        output, enqueued, applied>>
         /\ Depth' = Depth
         /\ Pending' = Pending]_vars

\* C12's case: getPixelCount carrying an id was answered on a full ring.
C12_Witness ==
  /\ IsJsonCall(call)
  /\ JsonCmd(CallDoc) = "getPixelCount"
  /\ "id" \in DOMAIN CallDoc
  /\ Depth = QUEUE_SIZE - 1
  /\ \E i \in 1..Len(trace) : "pixelCount" \in DOMAIN trace[i].msg

\* A reply or a Command carries the number n the client supplied as id: a
\* uint32_t shows as a number >= 0, the one whose halves it holds.
CarriesId(u, n) == n >= 0 /\ u = Unsigned(n)

\* C13 as claimed: a reply of the WebSocket handler that carries an id
\* (unknown_cmd, index_out_of_bounds, queue_full) carries the id of the message
\* being handled and goes to its sender; a command enqueueCommand is called
\* with holds that sender and that id; and an ack of loop() carries the
\* clientId and commandId of the command executed right before it.
C13_AsClaimed ==
  /\ IsJsonCall(call) =>
       \A i \in 1..Len(trace) :
         /\ (trace[i].ev = "send" /\ "id" \in DOMAIN trace[i].msg)
              => /\ trace[i].to = call.client
                 /\ "id" \in DOMAIN CallDoc
                 /\ CarriesId(trace[i].msg.id, CallDoc.id)
         /\ trace[i].ev = "enqueue"
              => /\ trace[i].cmd.clientId = call.client
                 /\ "id" \in DOMAIN CallDoc
                 /\ CarriesId(trace[i].cmd.commandId, CallDoc.id)
  /\ call.op = "loop" =>
       \A i \in 1..Len(trace) :
         IsAck(trace[i]) =>
           /\ i > 1
           /\ trace[i - 1].ev = "apply"
           /\ trace[i - 1].cmd.clientId = trace[i].to
           /\ trace[i - 1].cmd.commandId = trace[i].msg.ack

\* The strip after the commands cmds were executed on it, one after another.
RECURSIVE ExecuteAll(_, _)
ExecuteAll(cmds, strip) ==
  IF cmds = <<>> THEN strip ELSE ExecuteAll(Tail(cmds), Execute(Head(cmds), strip))

\* The strip as one record.
Strip == [pixels |-> pixels, brightness |-> brightness, output |-> output]

\* C14: loop() treats the command of a client that is gone like any other: it
\* leaves the ring and is executed on the strip, nothing is sent after it (the
\* only messages of loop() are acks to connected owners), and the commands
\* behind it are executed in the same call.
C14_StaleRouting ==
  [][call'.op = "loop" =>
       LET n == Min(COMMANDS_PER_LOOP, Len(Pending)) IN
       /\ \A i \in 1..Len(trace') :
            (trace'[i].ev = "apply" /\ trace'[i].cmd.clientId \notin connected)
              => (i = Len(trace') \/ trace'[i + 1].ev = "apply")
       /\ \A i \in 1..Len(trace') :
            trace'[i].ev = "send" => (IsAck(trace'[i]) /\ trace'[i].to \in connected)
       /\ Applied(trace') = SubSeq(Pending, 1, n)
       /\ Pending' = SubSeq(Pending, n + 1, Len(Pending))
       /\ Strip' = ExecuteAll(SubSeq(Pending, 1, n), Strip)]_vars

\* C14's case: in one loop() call the command of a client that is gone was
\* executed without a reply, and then the next command, of a connected client.
C14_Witness ==
  /\ call.op = "loop"
  /\ \E i \in 1..(Len(trace) - 1) :
       /\ trace[i].ev = "apply"
       /\ trace[i].cmd.clientId \notin connected
       /\ trace[i + 1].ev = "apply"
       /\ trace[i + 1].cmd.clientId \in connected
       /\ trace[i].cmd.type = "SET_PIXEL_COLOR"
       /\ pixels[0] # Black

\* The positions of the SHOW commands in a sequence of commands.
Shows(cmds) == { i \in 1..Len(cmds) : cmds[i].type = "SHOW" }

\* C15: what the LEDs show changes only by a show: a loop() call that executes
\* no SHOW command leaves it as it was, whatever SET_PIXEL_COLOR, SET_COLOR,
\* CLEAR and SET_BRIGHTNESS commands it executes; after a call whose last
\* command is a SHOW it is the buffer and brightness as they are then; after a
\* call whose only SHOW comes first it is the buffer and brightness as they
\* were before the call; the WebSocket handler never changes it, and of the
\* HTTP handlers only /api/show, which calls show(), does.
C15_ShowOnlyFlush ==
  [][/\ call'.op = "loop" =>
          LET cmds == Applied(trace') IN
          /\ Shows(cmds) = {} => output' = output
          /\ (cmds # <<>> /\ cmds[Len(cmds)].type = "SHOW")
               => output' = [pixels |-> pixels', brightness |-> brightness']
          /\ Shows(cmds) = {1}
               => output' = [pixels |-> pixels, brightness |-> brightness]
     /\ call'.op \in {"ws", "connect", "disconnect"} => output' = output
     /\ call'.op = "http" =>
          IF call'.route = "/api/show"
          THEN output' = [pixels |-> pixels, brightness |-> brightness]
          ELSE output' = output]_vars

\* C15's case: loop() executed a SHOW command when the buffer differed from
\* what the LEDs showed, and the LEDs now show the buffer.
C15_Witness ==
  /\ call.op = "loop"
  /\ Shows(Applied(trace)) # {}
  /\ output.pixels[0] # Black
  /\ output = [pixels |-> pixels, brightness |-> brightness]

\* The positions of the messages sent in a trace.
Sends(t) == { i \in 1..Len(t) : t[i].ev = "send" }

\* The positions in a trace of the executed commands whose client is in conn.
AppliedFor(t, conn) ==
  { i \in 1..Len(t) : t[i].ev = "apply" /\ t[i].cmd.clientId \in conn }

\* C16 as amended: a JSON message with a non-zero id whose cmd is neither ping
\* nor getPixelCount gets at ingestion either one error, to its sender, and
\* then it is not accepted, or nothing, and then it is accepted; the WebSocket
\* handler never sends an ack; loop() sends no error and one ack for each
\* command it executes whose client is connected, right after executing it; and
\* the commands it executes are the next accepted ones, each once.
C16_OneReply ==
  [][/\ (/\ IsJsonCall(call')
         /\ JsonCmd(call'.frame.doc) \notin BypassCmds
         /\ "id" \in DOMAIN call'.frame.doc
         /\ call'.frame.doc.id # 0)
        => /\ Cardinality(Sends(trace')) <= 1
           /\ \A i \in Sends(trace') :
                /\ "error" \in DOMAIN trace'[i].msg
                /\ trace'[i].to = call'.client
           /\ Sends(trace') # {} => enqueued' = enqueued
           /\ Sends(trace') = {} =>
                /\ Len(enqueued') = Len(enqueued) + 1
                /\ enqueued'[Len(enqueued')].clientId = call'.client
                /\ SubSeq(enqueued', 1, Len(enqueued)) = enqueued
     /\ call'.op = "ws" => \A i \in Sends(trace') : ~IsAck(trace'[i])
     /\ call'.op = "loop" =>
          /\ \A i \in Sends(trace') : IsAck(trace'[i])
          /\ Cardinality(Sends(trace')) = Cardinality(AppliedFor(trace', connected))
          /\ \A i \in AppliedFor(trace', connected) :
               /\ i < Len(trace')
               /\ trace'[i + 1] = [ev |-> "send", to |-> trace'[i].cmd.clientId,
                                   msg |-> [status |-> "ok",
                                            ack |-> trace'[i].cmd.commandId]]
          /\ Applied(trace') = SubSeq(enqueued, Len(applied) + 1, Len(applied'))
          /\ Len(applied') = Len(applied) + Len(Applied(trace'))]_vars

\* C16's case: one client sent two commands with the same id, and loop()
\* acknowledged each of them once in the same call.
C16_Witness ==
  /\ call.op = "loop"
  /\ Len(trace) = 4
  /\ IsAck(trace[2])
  /\ trace[4] = trace[2]
  /\ Len(enqueued) > QUEUE_SIZE

\* C16 as claimed: every JSON message with a non-zero id whose cmd is not ping
\* gets at ingestion either one error, to its sender, and is not accepted, or
\* nothing, and is accepted.
C16_AsClaimed ==
  [][(/\ IsJsonCall(call')
      /\ JsonCmd(call'.frame.doc) # "ping"
      /\ "id" \in DOMAIN call'.frame.doc
      /\ call'.frame.doc.id # 0)
     => /\ Cardinality(Sends(trace')) <= 1
        /\ \A i \in Sends(trace') :
             /\ "error" \in DOMAIN trace'[i].msg
             /\ trace'[i].to = call'.client
        /\ Sends(trace') # {} => enqueued' = enqueued
        /\ Sends(trace') = {} => Len(enqueued') = Len(enqueued) + 1]_vars

\* C17: a message rejected with bad_json, missing_id, unknown_cmd or
\* index_out_of_bounds is answered with that one error, to its sender only,
\* and changes nothing that loop() reads or writes: ring, indices, strip, the
\* connected clients and the histories stay as they were.
C17_ErrorIsolation ==
  [][(/\ call'.op = "ws"
      /\ \E i \in 1..Len(trace') :
           \E e \in {"bad_json", "missing_id", "unknown_cmd", "index_out_of_bounds"} :
             IsError(trace'[i], e))
     => /\ Len(trace') = 1
        /\ trace'[1].to = call'.client
        /\ UNCHANGED <<commandQueue, queueStart, queueEnd, pixels, brightness,
                       output, connected, nextClientId, enqueued, applied>>
        /\ Pending' = Pending]_vars

\* C17's case: a client's message was rejected with unknown_cmd while a
\* command of another client is waiting in the ring.
C17_Witness ==
  /\ call.op = "ws"
  /\ \E i \in 1..Len(trace) : IsError(trace[i], "unknown_cmd")
  /\ \E j \in 1..Len(Pending) : Pending[j].clientId # call.client
  /\ Len(applied) > 0

\* C19: both indices stay in 0..QUEUE_SIZE-1, the number of commands accepted
\* and not yet executed is (queueEnd - queueStart) mod QUEUE_SIZE, which is
\* also the number of commands loop() would read from the ring, and it is 0
\* exactly when queueStart = queueEnd: a ring that holds commands never looks
\* empty.
C19_Occupancy ==
  /\ queueStart \in 0..(QUEUE_SIZE - 1)
  /\ queueEnd \in 0..(QUEUE_SIZE - 1)
  /\ Depth = (queueEnd - queueStart) % QUEUE_SIZE
  /\ (Depth = 0) <=> (queueStart = queueEnd)
  /\ Len(Pending) = Depth

\* C19's case: the ring is full and its indices have wrapped, queueEnd being
\* right behind queueStart.
C19_Witness ==
  /\ queueStart - queueEnd = 1
  /\ Depth = QUEUE_SIZE - 1
  /\ Len(enqueued) > QUEUE_SIZE

\* The number of loop() calls a backlog of n commands needs: n divided by
\* COMMANDS_PER_LOOP, rounded up.
Ticks(n) == (n + COMMANDS_PER_LOOP - 1) \div COMMANDS_PER_LOOP

\* C20: a loop() call on a backlog of n > 0 commands executes the oldest of
\* them and leaves a backlog that needs exactly one call fewer than n did, and
\* a step that accepts no command and is not a loop() call leaves the backlog
\* as it is: so without further arrivals the ring is empty after exactly
\* Ticks(n) calls, not before, and then everything accepted has been executed;
\* a loop() call on an empty ring executes nothing, sends nothing and changes
\* neither index nor the strip.
C20_BoundedDrain ==
  [][/\ call'.op = "loop" =>
          /\ Len(Pending) > 0 =>
               /\ Ticks(Len(Pending')) = Ticks(Len(Pending)) - 1
               /\ Applied(trace') =
                    SubSeq(Pending, 1, Len(Pending) - Len(Pending'))
               /\ applied' = applied \o Applied(trace')
          /\ Len(Pending') = 0 => (applied' = enqueued /\ queueStart' = queueEnd')
          /\ Len(Pending) = 0 =>
               /\ trace' = <<>>
               /\ UNCHANGED <<commandQueue, queueStart, queueEnd, pixels,
                              brightness, output, applied>>
     /\ (call'.op # "loop" /\ enqueued' = enqueued) =>
          (Pending' = Pending /\ applied' = applied)]_vars

\* C20's case: a backlog that filled the ring, an odd number of commands, has
\* been drained, the last loop() call executing the one command left over.
C20_Witness ==
  /\ call.op = "loop"
  /\ queueStart = queueEnd
  /\ Len(Applied(trace)) = 1
  /\ Len(applied) = QUEUE_SIZE - 1
  /\ trace[1].cmd = enqueued[QUEUE_SIZE - 1]

\* No enqueueCommand call and no loop() call is under way, and the ring is empty.
Quiet ==
  /\ \A c \in ClientIds : enqCall[c].pc = "idle"
  /\ loopCall.pc = "idle"
  /\ queueStart = queueEnd

\* C18 as claimed: with enqueueCommand calls of two clients and loop() run
\* statement by statement in any interleaving, loop() executes only commands
\* that an enqueueCommand call wrote, none of them twice, in the order the
\* calls returned true; and once all calls are over and the ring is empty,
\* every command an enqueueCommand call returned true for has been executed.
C18_AsClaimed ==
  /\ \A i \in 1..Len(applied) : applied[i].type # "NONE"
  /\ \A i, j \in 1..Len(applied) : applied[i] = applied[j] => i = j
  /\ IsPrefix(applied, enqueued)
  /\ Quiet => applied = enqueued

====
